---- MODULE Spec2Model ----
(***************************************************************************)
(* Model of src/app.py: the Streamlit grid-outage replay dashboard.        *)
(*                                                                         *)
(* Streamlit executes the whole script once per trigger: the first page    *)
(* load, the auto-rerun at the end of a run while ss.running, one button   *)
(* press, or one widget change.  One action of the model is one such       *)
(* execution of the script from line 1 to line 231.                        *)
(*                                                                         *)
(* Numbers.  The telemetry columns are floats in the program.  The model   *)
(* keeps outage_prob, damage_index, crew_eta_min and criticality exactly,  *)
(* in tenths (950 stands for 95.0), so that boost*0.5 and boost*0.3 are    *)
(* integers for every boost of the slider (a multiple of 5).  composite is *)
(* kept in units of 1/1800 (a composite of 100.0 is 180000), which makes   *)
(* crew_eta_min/180*100 exact.  customer_impact is a count, timestamps are *)
(* seconds.  Floating-point rounding is not modelled.                      *)
(*                                                                         *)
(* Position.  A row's (lat, lon) never changes and is only read through    *)
(* haversine_km(FOCUS_LAT, FOCUS_LON, lat, lon); the row carries that      *)
(* distance, dist_km, in whole kilometres.                                 *)
(***************************************************************************)
EXTENDS Integers, Sequences, FiniteSets, TLC

VARIABLES
  df,            \* ss.df / df_all: the table, sorted by (timestamp, asset_id)
  replay_index,  \* ss.replay_index
  running,       \* ss.running
  focus_on,      \* sidebar checkbox "Focus on Vyshhorod area"
  radius_km,     \* sidebar slider "Focus radius (km)"
  rendered,      \* the script has run at least once (the page exists)
  i,             \* line 130: the pointer the view of the last run was built from
  buf,           \* line 141: index labels of the rolling window of the last run
  view,          \* line 152: the scored rows shown by the last run
  recs_fired,    \* line 181: recs after the loop, before it is sorted and cut
  recs,          \* line 182: the recommendations shown by the last run
  inj,           \* what the Inject handler of the last run did (lines 107-121)
  injects        \* number of Inject presses so far

vars == <<df, replay_index, running, focus_on, radius_km, rendered,
          i, buf, view, recs_fired, recs, inj, injects>>

\* ------------------------------------------------------------------ bounds
MaxAssets == 7       \* assets of a one-timestamp table
MaxLongAssets == 2   \* assets of a table of several timestamps
MaxSlices == 4       \* timestamps of a table
MaxInjects == 2      \* Inject presses of a session

\* ------------------------------------------------------- program constants
WINDOW_SECONDS == 120
MaxRecs == 6
PreloadSlices == 2

\* pandas' missing value (NaT / NaN): the minimum of an empty timestamp
\* column (line 58), the dist_km of an unfocused view (line 150).  Every
\* timestamp and every distance of the table is >= 0.
NA == -1

Min(a, b) == IF a <= b THEN a ELSE b
Max(a, b) == IF a >= b THEN a ELSE b

\* np.clip
Clamp(x, lo, hi) == IF x < lo THEN lo ELSE IF x > hi THEN hi ELSE x

Range(s) == {s[k] : k \in DOMAIN s}

\* ---------------------------------------------------------------- tables
\* The tables the session may have loaded (lines 24-39).  A table is what
\* load_csv returns: rows sorted by (timestamp, asset_id), index 0..n-1
\* (here 1..n).  Asset ids are 1..nA; their order is the order of sorted()
\* and of groupby.

\* Per-asset starting values (tenths, see the header).
Profiles ==
  << \* calm: no rule fires
     [outage_prob |-> 200, damage_index |-> 100, crew_eta_min |-> 200,
      criticality |-> 300, customer_impact |-> 500, dist_km |-> 10],
     \* both rules fire: composite 85.2, damage 95, crew 50
     [outage_prob |-> 1000, damage_index |-> 950, crew_eta_min |-> 500,
      criticality |-> 1000, customer_impact |-> 20000, dist_km |-> 20],
     \* rule 1 only: composite 99.4, crew 10
     [outage_prob |-> 1000, damage_index |-> 1000, crew_eta_min |-> 100,
      criticality |-> 1000, customer_impact |-> 12000, dist_km |-> 30],
     \* rule 2 only: damage 75, crew 236 (an injection reaches the 240 cap)
     [outage_prob |-> 100, damage_index |-> 750, crew_eta_min |-> 2360,
      criticality |-> 0, customer_impact |-> 100, dist_km |-> 5],
     \* above the nominal ranges: raw composite 140.9; customers exactly 10000
     [outage_prob |-> -100, damage_index |-> 3000, crew_eta_min |-> 20,
      criticality |-> 1200, customer_impact |-> 10000, dist_km |-> 60],
     \* below the nominal ranges: raw composite -36; crew 300 > 240
     [outage_prob |-> -200, damage_index |-> -500, crew_eta_min |-> 3000,
      criticality |-> 0, customer_impact |-> 0, dist_km |-> 25]
  >>

\* Layouts of a table of several timestamps: the seconds between two
\* timestamps (5 in the shipped data; with 120 the window holds the last two
\* timestamps, the older one exactly WINDOW_SECONDS before the newest) and
\* the cell left out of the grid (0: none; 1: asset 1 has no row at the first
\* timestamp, so the table is not one row per asset per timestamp).
Layouts(nA) ==
  {[step |-> 5, hole |-> 0], [step |-> 120, hole |-> 0]}
  \cup (IF nA >= 2 THEN {[step |-> 5, hole |-> 1]} ELSE {})

\* Row k (1-based) of the full grid of nA assets: slice and asset.
CellSlice(k, nA) == ((k - 1) \div nA) + 1
CellAsset(k, nA) == ((k - 1) % nA) + 1

\* The grid of nA assets x nT timestamps, without the cell `hole` (0: none),
\* asset a starting from Profiles[prof[a]].
MkTable(nA, nT, step, hole, prof) ==
  LET cells == SelectSeq([k \in 1..(nA * nT) |-> k], LAMBDA k : k # hole)
  IN  [r \in 1..Len(cells) |->
         LET a == CellAsset(cells[r], nA)
             p == Profiles[prof[a]]
         IN  [timestamp       |-> (CellSlice(cells[r], nA) - 1) * step,
              asset_id        |-> a,
              dist_km         |-> p.dist_km,
              outage_prob     |-> p.outage_prob,
              damage_index    |-> p.damage_index,
              crew_eta_min    |-> p.crew_eta_min,
              criticality     |-> p.criticality,
              customer_impact |-> p.customer_impact]]

\* Profile pairs <<pa, pb>>: hot and calm; rule 2 only before rule 1 only;
\* out of range above and below.
Mixes == {<<2, 1>>, <<4, 3>>, <<5, 6>>}

\* Profile assignments: asset 1 starts from pa, the others from pb.
ProfMaps(nA) ==
  {[a \in 1..nA |-> IF a = 1 THEN m[1] ELSE m[2]] : m \in Mixes}

\* Profile assignments of a one-timestamp table: every asset fires both
\* rules, or asset 1 fires rule 2 only and the others rule 1 only.
WideProfMaps(nA) ==
  {[a \in 1..nA |-> 2], [a \in 1..nA |-> IF a = 1 THEN 4 ELSE 3]}

\* --------------------------------------------------------------- helpers
total_rows(d) == Len(d)

assets_count(d) == Cardinality({d[r].asset_id : r \in DOMAIN d})

RECURSIVE SortedSeq(_)
\* sorted(): the elements of a finite set of integers in ascending order
SortedSeq(S) ==
  IF S = {} THEN <<>>
  ELSE LET m == CHOOSE x \in S : \A y \in S : x <= y
       IN  <<m>> \o SortedSeq(S \ {m})

RECURSIVE SumOver(_, _)
SumOver(f, S) ==
  IF S = {} THEN 0
  ELSE LET x == CHOOSE y \in S : TRUE IN f[x] + SumOver(f, S \ {x})

\* ------------------------------------------------------------- composite
\* compute_composite, for one row (lines 49-54).  crew and the result are in
\* units of 1/1800: crew = clip(crew_eta_min/180*100, 0, 100) is
\* clip(100*crew_eta_min[tenths], 0, 180000).
composite_unclipped(row) ==
  LET outage == row.outage_prob
      damage == row.damage_index
      crit   == row.criticality
      crew   == Clamp(row.crew_eta_min * 100, 0, 180000)
  IN  72 * damage + 54 * outage + 36 * crit - (crew \div 10)

\* Faulty variant: the outer np.clip of line 54 is left out.
composite_of_unclipped(row) == composite_unclipped(row)

composite_of(row) == Clamp(composite_unclipped(row), 0, 180000)

\* df.assign(composite=...): a batch, empty or not, gets the column
compute_composite(batch) ==
  [k \in DOMAIN batch |->
     [ix |-> batch[k].ix, timestamp |-> batch[k].timestamp,
      asset_id |-> batch[k].asset_id, dist_km |-> batch[k].dist_km,
      outage_prob |-> batch[k].outage_prob,
      damage_index |-> batch[k].damage_index,
      crew_eta_min |-> batch[k].crew_eta_min,
      criticality |-> batch[k].criticality,
      customer_impact |-> batch[k].customer_impact,
      composite |-> composite_of(batch[k])]]

\* ---------------------------------------------------------- replay pointer
\* now_timestamp (lines 56-60)
now_timestamp(d, idx) ==
  IF idx = 0
  THEN IF Len(d) = 0 THEN NA
       ELSE CHOOSE t \in {d[r].timestamp : r \in DOMAIN d} :
              \A r \in DOMAIN d : t <= d[r].timestamp
  ELSE d[Min(idx - 1, total_rows(d) - 1) + 1].timestamp

\* Faulty variant: the pointer is not clamped to total_rows.
fast_forward_slices_unclamped(idx, slices, ac, total) == idx + slices * ac

\* fast_forward_slices (lines 95-96)
fast_forward_slices(idx, slices, ac, total) == Min(idx + slices * ac, total)

\* PRELOAD FIRST VIEW (lines 124-125)
preload(idx, ac, total) ==
  IF idx = 0 THEN Min(PreloadSlices * ac, total) ELSE idx

\* Faulty variant: the pointer is clamped to the last row's index, as in
\* now_timestamp, instead of to total_rows.
advance_short(idx, run, ac, total) ==
  IF run THEN Min(idx + ac, total - 1) ELSE idx

\* ADVANCE POINTER (lines 128-129)
advance(idx, run, ac, total) ==
  IF run THEN Min(idx + ac, total) ELSE idx

\* ------------------------------------------------------------ injection
\* times = df_all["timestamp"].drop_duplicates().sort_values() (line 112)
distinct_times(d) == SortedSeq({d[r].timestamp : r \in DOMAIN d})

\* Faulty variant: side="right".
searchsorted_right(times, t0) ==
  Cardinality({k \in DOMAIN times : times[k] <= t0})

\* Series.searchsorted(t0, side="left"): a 0-based position (line 113)
searchsorted_left(times, t0) ==
  Cardinality({k \in DOMAIN times : times[k] < t0})

\* Series.iloc[a:b], as a set: a Python slice, whose negative bounds count
\* from the end and whose bounds are cut to the length
iloc_slice(xs, a, b) ==
  LET lo == IF a < 0 THEN Max(a + Len(xs), 0) ELSE Min(a, Len(xs))
      hi == IF b < 0 THEN Max(b + Len(xs), 0) ELSE Min(b, Len(xs))
  IN  {xs[k + 1] : k \in lo..(hi - 1)}

\* apply_times = times.iloc[pos0:pos1] (lines 113-116), as a set
apply_times_of(times, t0, hot_slices) ==
  LET pos0 == Min(Max(searchsorted_left(times, t0), 0), Len(times) - 1)
      pos1 == Min(pos0 + hot_slices, Len(times))
  IN  iloc_slice(times, pos0, pos1)

\* Faulty variant: the mask forgets the asset.
inject_mask_any_asset(d, hot_asset, apply_times) ==
  {r \in DOMAIN d : d[r].timestamp \in apply_times}

\* mask (line 117), as the set of index labels it selects
inject_mask(d, hot_asset, apply_times) ==
  {r \in DOMAIN d : d[r].asset_id = hot_asset /\ d[r].timestamp \in apply_times}

\* Faulty variant: the three np.clip calls are left out.
boosted_unclipped(row, hot_boost) ==
  [row EXCEPT
     !.damage_index = row.damage_index + 10 * hot_boost,
     !.outage_prob  = row.outage_prob + 5 * hot_boost,
     !.crew_eta_min = row.crew_eta_min + 3 * hot_boost]

\* lines 118-120 on one row of the mask (tenths: +boost, +boost*0.5, +boost*0.3)
boosted(row, hot_boost) ==
  [row EXCEPT
     !.damage_index = Clamp(row.damage_index + 10 * hot_boost, 0, 1000),
     !.outage_prob  = Clamp(row.outage_prob + 5 * hot_boost, 0, 1000),
     !.crew_eta_min = Clamp(row.crew_eta_min + 3 * hot_boost, 50, 2400)]

NoInject == [outcome |-> "none"]

\* What the handler reports.  outcome is the sidebar message: "warning"
\* (line 110), "success" (line 121) or "error" (an exception); at is the
\* pointer now_timestamp read, mask the rows assigned, applied apply_times.
Report(outcome, idx, t0, hot_asset, hot_slices, hot_boost, mask, applied) ==
  [outcome |-> outcome, at |-> idx, t0 |-> t0, asset |-> hot_asset,
   slices |-> hot_slices, boost |-> hot_boost, mask |-> mask,
   applied |-> applied]

\* lines 112-121: the injection itself
apply_injection(d, idx, t0, hot_asset, hot_slices, hot_boost) ==
  LET times == distinct_times(d)
      apply_times == apply_times_of(times, t0, hot_slices)
      mask == inject_mask(d, hot_asset, apply_times)
  IN  [df |-> [r \in DOMAIN d |->
                 IF r \in mask THEN boosted(d[r], hot_boost) ELSE d[r]],
       inj |-> Report("success", idx, t0, hot_asset, hot_slices, hot_boost,
                      mask, apply_times)]

\* Faulty variant: pd.isna(t0) is not tested.  With no timestamp at all, lines
\* 112-120 select nothing and times.iloc[pos0] of line 121 raises.
inject_unchecked(d, idx, hot_asset, hot_slices, hot_boost) ==
  LET t0 == now_timestamp(d, idx)
  IN  IF distinct_times(d) = <<>>
      THEN [df |-> d,
            inj |-> Report("error", idx, t0, hot_asset, hot_slices, hot_boost,
                           {}, {})]
      ELSE apply_injection(d, idx, t0, hot_asset, hot_slices, hot_boost)

\* The Inject handler (lines 107-121): the new table and what it reported.
inject(d, idx, hot_asset, hot_slices, hot_boost) ==
  LET t0 == now_timestamp(d, idx)
  IN  IF t0 = NA
      THEN [df |-> d,
            inj |-> Report("warning", idx, t0, hot_asset, hot_slices,
                           hot_boost, {}, {})]
      ELSE apply_injection(d, idx, t0, hot_asset, hot_slices, hot_boost)

\* ------------------------------------------------------------------ view
\* Faulty variant: the newest timestamp is taken over the whole table, not over the
\* visible prefix.
window_table_max(d, idx) ==
  LET prefix == 1..Min(idx, Len(d))
      t_max  == CHOOSE t \in {d[r].timestamp : r \in DOMAIN d} :
                  \A r \in DOMAIN d : d[r].timestamp <= t
  IN  IF prefix = {} THEN <<>>
      ELSE SelectSeq([r \in prefix |-> r],
                     LAMBDA r : d[r].timestamp >= t_max - WINDOW_SECONDS)

\* buf = df_all.iloc[:i], restricted to the last WINDOW_SECONDS (lines
\* 136-141): the index labels kept, in table order.  Every timestamp of a
\* table is a valid instant, so notna().any() and notna(t_max) hold.
window(d, idx) ==
  LET prefix == 1..Min(idx, Len(d))
      t_max  == CHOOSE t \in {d[r].timestamp : r \in prefix} :
                  \A r \in prefix : d[r].timestamp <= t
  IN  IF prefix = {} THEN <<>>
      ELSE SelectSeq([r \in prefix |-> r],
                     LAMBDA r : d[r].timestamp >= t_max - WINDOW_SECONDS)

\* A row of buf, with its index label
buf_row(d, r, dist) ==
  [ix |-> r, timestamp |-> d[r].timestamp, asset_id |-> d[r].asset_id,
   dist_km |-> dist, outage_prob |-> d[r].outage_prob,
   damage_index |-> d[r].damage_index, crew_eta_min |-> d[r].crew_eta_min,
   criticality |-> d[r].criticality, customer_impact |-> d[r].customer_impact]

\* Focus filter (lines 143-150)
focus_filter(d, b, focus, radius) ==
  IF focus /\ b # <<>>
  THEN LET kept == SelectSeq(b, LAMBDA r : d[r].dist_km <= radius)
       IN  [k \in DOMAIN kept |-> buf_row(d, kept[k], d[kept[k]].dist_km)]
  ELSE [k \in DOMAIN b |-> buf_row(d, b[k], NA)]

\* -------------------------------------------------------- recommendations
Rule1Action == "Dispatch nearest crew; backfeed & partial load-shed; UAV recon"
Rule2Action == "Re-route standby crew; pre-position spares"

\* view.groupby("asset_id").agg(mean ...) (lines 166-172), one group per
\* asset of the view in ascending asset order.  A mean is kept as its sum and
\* its count n.
groups(v) ==
  LET ids == SortedSeq({v[k].asset_id : k \in DOMAIN v})
  IN  [g \in DOMAIN ids |->
         LET rows == {k \in DOMAIN v : v[k].asset_id = ids[g]}
         IN  [asset_id |-> ids[g],
              n    |-> Cardinality(rows),
              comp |-> SumOver([k \in rows |-> v[k].composite], rows),
              dmg  |-> SumOver([k \in rows |-> v[k].damage_index], rows),
              out  |-> SumOver([k \in rows |-> v[k].outage_prob], rows),
              crew |-> SumOver([k \in rows |-> v[k].crew_eta_min], rows),
              cust |-> SumOver([k \in rows |-> v[k].customer_impact], rows)]]

\* Faulty variant: customers >= 10000 instead of > 10000.
rule1_at_least(g) == g.comp > 80 * 1800 * g.n /\ g.cust >= 10000 * g.n

\* line 174: r["comp"] > 80 and r["cust"] > 10000
rule1(g) == g.comp > 80 * 1800 * g.n /\ g.cust > 10000 * g.n

\* line 178: r["dmg"] > 70 and r["crew"] > 45
rule2(g) == g.dmg > 700 * g.n /\ g.crew > 450 * g.n

\* lines 173-181 for one group
fired(g) ==
  (IF rule1(g)
   THEN <<[asset |-> g.asset_id, priority |-> 1, action |-> Rule1Action]>>
   ELSE <<>>)
  \o
  (IF rule2(g)
   THEN <<[asset |-> g.asset_id, priority |-> 2, action |-> Rule2Action]>>
   ELSE <<>>)

RECURSIVE all_fired(_, _)
\* the recs list after the loop over grp.iterrows(), from group k on
all_fired(grp, k) ==
  IF k > Len(grp) THEN <<>> ELSE fired(grp[k]) \o all_fired(grp, k + 1)

RECURSIVE insert_by_priority(_, _)
\* x goes after every element whose priority is not greater (stable)
insert_by_priority(sorted, x) ==
  IF sorted = <<>> THEN <<x>>
  ELSE IF Head(sorted).priority <= x.priority
       THEN <<Head(sorted)>> \o insert_by_priority(Tail(sorted), x)
       ELSE <<x>> \o sorted

RECURSIVE sorted_by_priority(_, _)
\* sorted(recs, key=lambda x: x["priority"]): a stable sort
sorted_by_priority(rs, k) ==
  IF k = 0 THEN <<>>
  ELSE insert_by_priority(sorted_by_priority(rs, k - 1), rs[k])

\* Faulty variant: the list is cut to 6 before it is sorted.
top_recs_cut_first(rs) ==
  LET c == SubSeq(rs, 1, Min(MaxRecs, Len(rs)))
  IN  sorted_by_priority(c, Len(c))

\* sorted(recs, key=...)[:6] (line 182)
top_recs(rs) ==
  LET s == sorted_by_priority(rs, Len(rs))
  IN  SubSeq(s, 1, Min(MaxRecs, Len(s)))

\* lines 162-181: nothing is recommended on an empty view
fired_recs(v) ==
  IF v = <<>> THEN <<>> ELSE all_fired(groups(v), 1)

\* ------------------------------------------------------------ the script
\* Widget values a user can choose
Radii == {5, 25}                \* the slider of line 83 (5..50 in steps of 5)
FFSlices == {2, 4, 8}           \* the buttons of lines 97-99
\* Duration (the select_slider of line 105, 1..5) and magnitude (the slider
\* of line 106, 5..50 in steps of 5) of an injection: the shortest with the
\* default boost, the default duration with the largest boost.
InjectChoices == {[slices |-> 1, boost |-> 20], [slices |-> 3, boost |-> 50]}

\* line 104: the selectbox over sorted(asset ids); None (0) on an empty table
HotAssets(d) ==
  IF Len(d) = 0 THEN {0} ELSE {d[r].asset_id : r \in DOMAIN d}

\* One execution of the script, triggered by `trigger`, with the widget
\* values of this run.  slices is the fast-forward button's argument;
\* hot_asset, hot_slices and hot_boost are the Inject widgets.
Script(trigger, slices, hot_asset, hot_slices, hot_boost, focus, radius) ==
  LET ac    == assets_count(df)
      total == total_rows(df)
      \* lines 87-91
      run1  == IF trigger = "start" THEN TRUE
               ELSE IF trigger \in {"stop", "reset"} THEN FALSE
               ELSE running
      idx1  == IF trigger = "reset" THEN 0 ELSE replay_index
      \* lines 97-99
      idx2  == IF trigger = "ff"
               THEN fast_forward_slices(idx1, slices, ac, total) ELSE idx1
      \* lines 107-121
      done  == IF trigger = "inject"
               THEN inject(df, idx2, hot_asset, hot_slices, hot_boost)
               ELSE [df |-> df, inj |-> NoInject]
      \* lines 124-130
      idx3  == preload(idx2, ac, total)
      idx4  == advance(idx3, run1, ac, total)
  IN  /\ df' = done.df
      /\ inj' = done.inj
      /\ running' = run1
      /\ replay_index' = idx4
      /\ i' = replay_index'
      \* lines 135-152
      /\ buf' = IF i' > 0 THEN window(df', i') ELSE <<>>
      /\ view' = IF i' > 0
                 THEN compute_composite(focus_filter(df', buf', focus, radius))
                 ELSE <<>>
      \* lines 162-182
      /\ recs_fired' = fired_recs(view')
      /\ recs' = top_recs(recs_fired')
      /\ focus_on' = focus
      /\ radius_km' = radius
      /\ rendered' = TRUE
      /\ injects' = IF trigger = "inject" THEN injects + 1 ELSE injects

\* The page load: the first run of the session, no button can be down.
FirstRun ==
  /\ ~rendered
  /\ Script("none", 0, 0, 0, 0, focus_on, radius_km)

\* The auto-rerun of lines 229-231
Rerun ==
  /\ rendered /\ running
  /\ Script("none", 0, 0, 0, 0, focus_on, radius_km)

\* The user toggles the checkbox of line 82
SetFocus ==
  /\ rendered
  /\ Script("none", 0, 0, 0, 0, ~focus_on, radius_km)

\* The user moves the slider of line 83
SetRadius ==
  /\ rendered
  /\ \E r \in Radii \ {radius_km} :
       Script("none", 0, 0, 0, 0, focus_on, r)

PressStart ==
  /\ rendered
  /\ Script("start", 0, 0, 0, 0, focus_on, radius_km)

PressStop ==
  /\ rendered
  /\ Script("stop", 0, 0, 0, 0, focus_on, radius_km)

PressReset ==
  /\ rendered
  /\ Script("reset", 0, 0, 0, 0, focus_on, radius_km)

PressFastForward ==
  /\ rendered
  /\ \E n \in FFSlices : Script("ff", n, 0, 0, 0, focus_on, radius_km)

PressInject ==
  /\ rendered
  /\ injects < MaxInjects
  /\ \E a \in HotAssets(df), c \in InjectChoices :
       Script("inject", 0, a, c.slices, c.boost, focus_on, radius_km)

\* The table of the session: empty (a file of the header line alone), one
\* timestamp of up to MaxAssets assets, or several timestamps of a few.
Loaded ==
  \/ df = <<>>
  \/ \E nA \in 1..MaxAssets :
       \E prof \in WideProfMaps(nA) : df = MkTable(nA, 1, 5, 0, prof)
  \/ \E nA \in 1..MaxLongAssets, nT \in 2..MaxSlices :
       \E lay \in Layouts(nA), prof \in ProfMaps(nA) :
         df = MkTable(nA, nT, lay.step, lay.hole, prof)

\* The session state after lines 18-21
Fresh ==
  /\ replay_index = 0
  /\ running = TRUE
  /\ focus_on = TRUE
  /\ radius_km = 25
  /\ rendered = FALSE
  /\ i = 0
  /\ buf = <<>>
  /\ view = <<>>
  /\ recs_fired = <<>>
  /\ recs = <<>>
  /\ inj = NoInject
  /\ injects = 0

Init == Loaded /\ Fresh

Next ==
  \/ FirstRun
  \/ Rerun
  \/ SetFocus
  \/ SetRadius
  \/ PressStart
  \/ PressStop
  \/ PressReset
  \/ PressFastForward
  \/ PressInject

Spec == Init /\ [][Next]_vars

\* Scheduling.  The page load happens (the first run), and a run that ends
\* with ss.running set sleeps TICK_SECONDS and calls st.rerun() (lines
\* 229-231), so another run follows: the auto-rerun, or the run of a button
\* press or widget change that came first.  That run starts with ss.running
\* set; unless it is a Stop or Reset press it advances the pointer by a slice
\* (line 129).  PageLoad and Tick say what such a step does to rendered and
\* to the pointer: weak fairness of FirstRun and of Rerun implies weak
\* fairness of PageLoad and of Tick, which is all that replay progress needs.
PageLoad == ~rendered /\ rendered' = TRUE

Tick ==
  /\ rendered /\ running /\ i < total_rows(df)
  /\ i' = Min(i + assets_count(df), total_rows(df))

FairSpec == Spec /\ WF_rendered(PageLoad) /\ WF_i(Tick)

\* ================================================================ properties

\* One row per asset per timestamp
IsGrid(d) ==
  \A a \in {d[r].asset_id : r \in DOMAIN d}, t \in {d[r].timestamp : r \in DOMAIN d} :
    Cardinality({r \in DOMAIN d : d[r].asset_id = a /\ d[r].timestamp = t}) = 1

\* C1: on a table of one row per asset per timestamp, the pointer a view is
\* built from is a whole number of slices and lies in [0, total_rows].
C1_PointerAligned ==
  (rendered /\ IsGrid(df)) =>
     /\ i \in 0..total_rows(df)
     /\ \E k \in 0..total_rows(df) : i = k * assets_count(df)
     /\ replay_index = i

\* A session on a grid table that was reset (two slices, short of the end) after an
\* injection.
C1_Witness ==
  /\ rendered /\ IsGrid(df) /\ injects > 0
  /\ i = PreloadSlices * assets_count(df)
  /\ i < total_rows(df)

\* C2: every scored row has composite = clamp(0.40*damage + 0.30*outage +
\* 0.20*criticality - 0.10*clamp(crew_eta/180*100, 0, 100), 0, 100), which
\* is within [0, 100], whatever the ranges of its inputs (here in 1/1800).
C2_CompositeClamped ==
  \A k \in DOMAIN view :
    LET r    == view[k]
        crew == IF r.crew_eta_min * 100 < 0 THEN 0
                ELSE IF r.crew_eta_min * 100 > 180000 THEN 180000
                ELSE r.crew_eta_min * 100
        raw  == 72 * r.damage_index + 54 * r.outage_prob + 36 * r.criticality
                - crew \div 10
    IN  /\ r.composite \in 0..180000
        /\ raw < 0 => r.composite = 0
        /\ raw > 180000 => r.composite = 180000
        /\ raw \in 0..180000 => r.composite = raw

\* A view with a row above the nominal ranges (scored 100), a row below them
\* (scored 0) and a row scored in between.
C2_Witness ==
  /\ \E k \in DOMAIN view :
       view[k].damage_index > 1000 /\ view[k].composite = 180000
  /\ \E k \in DOMAIN view :
       view[k].damage_index < 0 /\ view[k].composite = 0

\* C3: for a pointer i > 0 the rolling window is exactly the rows of
\* rows[0:i] whose timestamp is >= (the newest timestamp of rows[0:i]) -
\* WINDOW_SECONDS, in table order.
C3_RollingWindow ==
  (rendered /\ i > 0) =>
     LET newest == CHOOSE t \in {df[r].timestamp : r \in 1..i} :
                     \A r \in 1..i : df[r].timestamp <= t
     IN  /\ \A r \in DOMAIN df :
              (r \in Range(buf)) <=>
                 (r <= i /\ df[r].timestamp >= newest - WINDOW_SECONDS)
         /\ \A j, k \in DOMAIN buf : j < k => buf[j] < buf[k]

\* A window that leaves out an old row of the prefix, keeps a row exactly
\* WINDOW_SECONDS old, and stops short of the end of the table.
C3_Witness ==
  /\ rendered /\ i > 0 /\ i < total_rows(df)
  /\ \E r \in 1..i : r \notin Range(buf)
  /\ \E r \in Range(buf) :
       df[r].timestamp + WINDOW_SECONDS = df[i].timestamp

\* The entries of a list with priority p, in the order of the list
OfPriority(rs, p) == SelectSeq(rs, LAMBDA x : x.priority = p)

\* C4: the recommendations shown are the fired ones sorted by priority,
\* entries of equal priority in group order, cut to the first 6.
C4_SortedAndCapped ==
  LET p1 == OfPriority(recs_fired, 1)
      p2 == OfPriority(recs_fired, 2)
  IN  /\ Len(recs) = Min(6, Len(recs_fired))
      /\ recs = SubSeq(p1 \o p2, 1, Len(recs))
      /\ \A j, k \in DOMAIN recs : j < k => recs[j].priority <= recs[k].priority
      /\ (\E k \in DOMAIN recs : recs[k].priority = 2) => Len(p1) < 6

\* More than 6 fired, a priority-2 entry first in group order, and 6 or
\* more of priority 1: the list shown holds six priority-1 entries.
C4_Witness ==
  /\ Len(recs_fired) > 6
  /\ recs_fired[1].priority = 2
  /\ Len(recs) = 6
  /\ \A k \in DOMAIN recs : recs[k].priority = 1

\* The rows of the view of one asset
RowsOf(a) == {k \in DOMAIN view : view[k].asset_id = a}

\* The entries fired for asset a with priority p
FiredFor(a, p) ==
  {k \in DOMAIN recs_fired :
     recs_fired[k].asset = a /\ recs_fired[k].priority = p}

\* C5: per asset of the view, from the means over its rows of the view: a
\* priority-1 entry is fired iff mean composite > 80 and mean
\* customer_impact > 10000, a priority-2 entry iff mean damage_index > 70 and
\* mean crew_eta_min > 45, independently (0, 1 or 2 entries per asset, the
\* priority-1 entry first), and every entry names an asset of the view.
C5_RulesPerAsset ==
  /\ \A a \in {view[k].asset_id : k \in DOMAIN view} :
       LET rows == RowsOf(a)
           n    == Cardinality(rows)
           comp == SumOver([k \in rows |-> view[k].composite], rows)
           cust == SumOver([k \in rows |-> view[k].customer_impact], rows)
           dmg  == SumOver([k \in rows |-> view[k].damage_index], rows)
           crew == SumOver([k \in rows |-> view[k].crew_eta_min], rows)
       IN  /\ Cardinality(FiredFor(a, 1)) =
                IF comp > 80 * 1800 * n /\ cust > 10000 * n THEN 1 ELSE 0
           /\ Cardinality(FiredFor(a, 2)) =
                IF dmg > 700 * n /\ crew > 450 * n THEN 1 ELSE 0
           /\ \A j \in FiredFor(a, 1), k \in FiredFor(a, 2) : j < k
  /\ \A k \in DOMAIN recs_fired :
       /\ recs_fired[k].asset \in {view[j].asset_id : j \in DOMAIN view}
       /\ recs_fired[k].priority \in {1, 2}
  /\ \A k \in DOMAIN recs : \E j \in DOMAIN recs_fired : recs[k] = recs_fired[j]

\* A view in which one asset fires both rules from rows that differ (one of
\* them injected) and another asset fires none.
C5_Witness ==
  /\ \E a \in {view[k].asset_id : k \in DOMAIN view} :
       /\ FiredFor(a, 1) # {} /\ FiredFor(a, 2) # {}
       /\ \E j, k \in RowsOf(a) : view[j].damage_index # view[k].damage_index
  /\ \E a \in {view[k].asset_id : k \in DOMAIN view} :
       FiredFor(a, 1) = {} /\ FiredFor(a, 2) = {}

\* The distinct timestamps of the table
Timestamps == {df[r].timestamp : r \in DOMAIN df}

\* The first m timestamps of the table at or after t
FirstFrom(t, m) ==
  LET later == {u \in Timestamps : u >= t}
  IN  {u \in later : Cardinality({w \in later : w < u}) < m}

\* C6, as the specification words it: an injection of n slices modifies
\* the rows of the target asset at exactly n consecutive distinct timestamps
\* from the nearest one at or after t0, at every reachable pointer.
C6_ExactlyN ==
  (inj.outcome = "success" /\ IsGrid(df)) =>
     /\ inj.mask = {r \in DOMAIN df : df[r].asset_id = inj.asset
                                      /\ df[r].timestamp \in inj.applied}
     /\ inj.applied = FirstFrom(inj.t0, inj.slices)
     /\ Cardinality({df[r].timestamp : r \in inj.mask}) = inj.slices

\* C6, as the code behaves: t0 is the timestamp of the last visible row,
\* and the injection modifies the rows of the target asset at the first
\* min(n, k) distinct timestamps at or after t0, k being the number of
\* distinct timestamps of the table at or after t0: fewer than n when the
\* pointer is in the last n-1 slices.
C6_UpToN ==
  inj.outcome = "success" =>
     LET k == Cardinality({u \in Timestamps : u >= inj.t0})
         m == Min(inj.slices, k)
     IN  /\ inj.at \in 1..total_rows(df)
         /\ inj.t0 = df[inj.at].timestamp
         /\ m >= 1
         /\ inj.applied = FirstFrom(inj.t0, m)
         /\ Cardinality(inj.applied) = m
         /\ inj.mask = {r \in DOMAIN df : df[r].asset_id = inj.asset
                                          /\ df[r].timestamp \in inj.applied}
         /\ IsGrid(df) => Cardinality({df[r].timestamp : r \in inj.mask}) = m

\* An injection of 3 slices with the pointer on the last but one timestamp
\* of a grid table: two timestamps are modified.
C6_Witness ==
  /\ inj.outcome = "success" /\ IsGrid(df)
  /\ inj.slices = 3
  /\ Cardinality({df[r].timestamp : r \in inj.mask}) = 2

\* C7: every row an injection touches ends with damage_index = clamp(old +
\* boost, 0, 100), outage_prob = clamp(old + 0.5*boost, 0, 100) and
\* crew_eta_min = clamp(old + 0.3*boost, 5, 240) (tenths), so these stay
\* within 100, 100 and [5, 240] however often the rows are injected.
C7_InjectClamps ==
  [][inj'.outcome = "success" =>
       \A r \in inj'.mask :
         LET dmg  == df[r].damage_index + 10 * inj'.boost
             out  == df[r].outage_prob + 5 * inj'.boost
             crew == df[r].crew_eta_min + 3 * inj'.boost
         IN  /\ df'[r].damage_index =
                  (IF dmg < 0 THEN 0 ELSE IF dmg > 1000 THEN 1000 ELSE dmg)
             /\ df'[r].outage_prob =
                  (IF out < 0 THEN 0 ELSE IF out > 1000 THEN 1000 ELSE out)
             /\ df'[r].crew_eta_min =
                  (IF crew < 50 THEN 50 ELSE IF crew > 2400 THEN 2400 ELSE crew)
             /\ df'[r].damage_index \in 0..1000
             /\ df'[r].outage_prob \in 0..1000
             /\ df'[r].crew_eta_min \in 50..2400]_vars

\* A second injection on a row that started calm (damage 10): its damage
\* reaches the cap of 100 only by the second boost of 50.
C7_Witness ==
  /\ inj.outcome = "success" /\ injects = 2
  /\ \E r \in inj.mask :
       /\ df[r].criticality = 300
       /\ df[r].damage_index = 1000
       /\ df[r].crew_eta_min = 500

\* C8: an Inject press while the pointer is 0 (nothing replayed yet) ends in
\* the warning, not in an exception, and changes no row of the table.
C8_InjectAtZero ==
  [][(inj'.outcome # "none" /\ inj'.at = 0) =>
       (inj'.outcome = "warning" /\ df' = df)]_vars

\* Inject was pressed with the pointer at 0 and warned.
C8_Witness ==
  /\ rendered /\ inj.outcome = "warning" /\ inj.at = 0 /\ i = 0

\* The columns of a row that an injection does not write
Untouched(row) ==
  [timestamp |-> row.timestamp, asset_id |-> row.asset_id,
   dist_km |-> row.dist_km, criticality |-> row.criticality,
   customer_impact |-> row.customer_impact]

\* C9: only Inject changes the table, and only damage_index, outage_prob and
\* crew_eta_min of the selected rows of the target asset; every other run
\* leaves the table as it is, and every view shows the table's current
\* values (so a row injected once shows its boosted values in every later
\* window, also after a Reset).
C9_OnlyInjectWrites ==
  [][/\ DOMAIN df' = DOMAIN df
     /\ inj'.outcome # "success" => df' = df
     /\ inj'.outcome = "success" =>
          \A r \in DOMAIN df :
            IF r \in inj'.mask
            THEN /\ df[r].asset_id = inj'.asset
                 /\ df[r].timestamp \in inj'.applied
                 /\ Untouched(df'[r]) = Untouched(df[r])
            ELSE df'[r] = df[r]
     /\ \A k \in DOMAIN view' :
          LET row == df'[view'[k].ix]
          IN  /\ view'[k].damage_index = row.damage_index
              /\ view'[k].outage_prob = row.outage_prob
              /\ view'[k].crew_eta_min = row.crew_eta_min
              /\ Untouched(view'[k]) = [Untouched(row) EXCEPT
                                          !.dist_km = view'[k].dist_km]]_vars

\* After a Reset (two slices shown, the replay stopped short of the end) a
\* run without injection shows a row that started calm (damage 10) with the
\* damage an earlier injection gave it.
C9_Witness ==
  /\ rendered /\ ~running /\ inj.outcome = "none" /\ injects > 0
  /\ IsGrid(df)
  /\ i = PreloadSlices * assets_count(df) /\ i < total_rows(df)
  /\ \E k \in DOMAIN view :
       view[k].criticality = 300 /\ view[k].damage_index > 100

\* C10: while ss.running stays set the pointer reaches total_rows and then
\* stays there; a run that ends with ss.running set has advanced the pointer
\* by a whole slice (or to total_rows); a run that ends with ss.running
\* unset moves the pointer only if it is a fast-forward press, or a Reset,
\* which leaves it at min(2*asset_count, total_rows).
C10_ReplayProgress ==
  /\ [](running => <>(~running \/ (rendered /\ i = total_rows(df))))
  /\ [][(rendered /\ running') =>
          /\ i' >= Min(i + assets_count(df), total_rows(df))
          /\ i' <= total_rows(df)
          /\ i = total_rows(df) => i' = total_rows(df)]_vars
  /\ [][(rendered /\ ~running' /\ i' # i) =>
          \/ PressFastForward
          \/ /\ PressReset
             /\ i' = Min(PreloadSlices * assets_count(df), total_rows(df))]_vars

\* The replay of a four-slice table has run to its end.
C10_Witness ==
  /\ rendered /\ running
  /\ assets_count(df) > 0
  /\ i = total_rows(df) /\ i > 3 * assets_count(df)

====
